---- MODULE Spec2Model ----
(***************************************************************************)
(* Model of 01_data_preperation.py: the gardening Q&A data preparation     *)
(* notebook.  Tables and dataframes are bags (multisets) of rows, SQL      *)
(* NULL is modelled explicitly with three-valued comparisons, and strings  *)
(* are run-length encoded sequences of segments so that the lengths the    *)
(* code compares against (1000, 5000) are the code's own.                  *)
(***************************************************************************)
EXTENDS Integers, Sequences, FiniteSets, Bags, TLC

VARIABLES
  raw_gardening,               \* rows of Posts.xml as the dataframe of line 110 denotes them
  gardening_dataset,           \* the persisted table written at line 135
  gardening_training_dataset,  \* the persisted table written at line 192
  udf_args,                    \* the values handed to html_to_text by the last run of line 129
  pc,                          \* the notebook cell that runs next
  batches,                     \* summarize: the Iterator[pd.Series] not yet consumed
  yielded,                     \* summarize: the series yielded so far
  loads,                       \* summarize: calls of pipeline("summarization", ...) so far
  summarized,                  \* summarize: calls of summarizer(text) so far
  spc                          \* summarize: position in the generator

vars == <<raw_gardening, gardening_dataset, gardening_training_dataset, udf_args, pc,
          batches, yielded, loads, summarized, spc>>

pvars == <<raw_gardening, gardening_dataset, gardening_training_dataset, udf_args, pc>>

svars == <<batches, yielded, loads, summarized, spc>>

----------------------------------------------------------------------------
(* Bounds of the model *)

MaxPosts == 2

MaxId == 2

MaxBatches == 2

MaxBatchLen == 2

(* Constants of the program *)

MinScore == 5

MaxBodyLen == 1000

SummarizeOver == 5000

----------------------------------------------------------------------------
(* SQL values: NULL and three-valued comparison *)

NULL == {}

Some(v) == {v}

Val(x) == CHOOSE v \in x : TRUE

\* a >= b of Spark SQL: NULL when an operand is NULL
SqlGe(a, b) == IF a = NULL \/ b = NULL THEN NULL ELSE Some(Val(a) >= Val(b))

\* a <= b of Spark SQL
SqlLe(a, b) == IF a = NULL \/ b = NULL THEN NULL ELSE Some(Val(a) <= Val(b))

\* a == b of Spark SQL (a join condition): NULL when an operand is NULL
SqlEq(a, b) == IF a = NULL \/ b = NULL THEN NULL ELSE Some(Val(a) = Val(b))

\* a filter or an inner join keeps a row only when its condition is TRUE
IsTrue(c) == c = Some(TRUE)

----------------------------------------------------------------------------
(* Strings: a sequence of segments, each n copies of c; k says whether the *)
(* segment is text ("txt"), well-formed markup ("tag") or malformed markup *)
(* ("bad").                                                                *)

Seg(k, c, n) == [k |-> k, c |-> c, n |-> n]

RECURSIVE StrLen(_)
StrLen(s) == IF s = << >> THEN 0 ELSE Head(s).n + StrLen(Tail(s))

\* length(col) of Spark SQL
SqlLength(x) == IF x = NULL THEN NULL ELSE Some(StrLen(Val(x)))

\* concat(...) of Spark SQL: NULL when an argument is NULL
SqlConcat3(x, y, z) ==
  IF x = NULL \/ y = NULL \/ z = NULL THEN NULL ELSE Some(Val(x) \o Val(y) \o Val(z))

IsText(g) == g.k = "txt"

\* BeautifulSoup(x).get_text(): the text nodes, markup dropped
GetText(s) == SelectSeq(s, IsText)

Malformed(s) == \E i \in 1..Len(s) : s[i].k = "bad"

----------------------------------------------------------------------------
(* Bags *)

BagFilter(B, P(_)) == [r \in {x \in DOMAIN B : P(x)} |-> B[r]]

BagJoin(A, B, On(_, _)) ==
  [p \in {q \in (DOMAIN A) \X (DOMAIN B) : On(q[1], q[2])} |-> A[p[1]] * B[p[2]]]

----------------------------------------------------------------------------
(* The rows of Posts.xml the model draws from *)

\* a well-formed body of exactly MaxBodyLen characters of raw HTML
BodyQ == <<Seg("tag", "<p>", 3), Seg("txt", "q", MaxBodyLen - 7), Seg("tag", "</p>", 4)>>

\* one character more of raw HTML than MaxBodyLen, yet less text than MaxBodyLen
BodyLong == <<Seg("tag", "<p>", 3), Seg("txt", "a", MaxBodyLen - 6), Seg("tag", "</p>", 4)>>

\* a short body with markup that a strict parser rejects
BodyBad == <<Seg("bad", "<![", 3), Seg("txt", "a", 5)>>

Bodies == {NULL, Some(BodyQ), Some(BodyLong), Some(BodyBad)}

Scores == {NULL, Some(MinScore - 1), Some(MinScore)}

Ids == 1..MaxId

ParentIds == {NULL} \cup {Some(i) : i \in Ids}

\* every score beside a body that passes, and every body beside a score that passes
ScoreAndBody ==
  {<<sc, Some(BodyQ)>> : sc \in Scores} \cup {<<Some(MinScore), b>> : b \in Bodies}

Posts ==
  {[Id |-> i, ParentId |-> p, Score |-> sb[1], Body |-> sb[2]] :
     i \in Ids, p \in ParentIds, sb \in ScoreAndBody}

RECURSIVE BagsUpTo(_)
BagsUpTo(n) ==
  IF n = 0 THEN {EmptyBag}
  ELSE LET S == BagsUpTo(n - 1)
       IN  S \cup {B (+) SetToBag({r}) : B \in S, r \in Posts}

\* the dump of an earlier run, whose tables may still be there when this run starts
EarlierDump ==
  SetToBag({[Id |-> 1, ParentId |-> NULL, Score |-> Some(MinScore), Body |-> Some(BodyQ)],
            [Id |-> 2, ParentId |-> Some(1), Score |-> Some(MinScore), Body |-> Some(BodyBad)]})

----------------------------------------------------------------------------
(* html_to_text, lines 122-124 *)

\* BeautifulSoup(x) raises on None, and a strict parser raises on malformed markup
MayRaise(x) == x = NULL \/ Malformed(Val(x))

MustRaise(x) == x = NULL

html_to_text(x) == Some(GetText(Val(x)))

----------------------------------------------------------------------------
(* gardening_df, lines 126-132 *)

ScoreFilter(df) == BagFilter(df, LAMBDA r : IsTrue(SqlGe(r.Score, Some(MinScore))))

\* mutant: the length measured on the text, after the markup is stripped
LengthFilterAfterStrip(df) ==
  BagFilter(df, LAMBDA r :
    IsTrue(SqlLe(IF r.Body = NULL THEN NULL ELSE SqlLength(html_to_text(r.Body)),
                 Some(MaxBodyLen))))

\* mutant: no length filter at all
NoLengthFilter(df) == df

LengthFilter(df) ==
  BagFilter(df, LAMBDA r : IsTrue(SqlLe(SqlLength(r.Body), Some(MaxBodyLen))))

\* the rows that reach withColumn("body", html_to_text("_Body"))
Filtered(df) == LengthFilter(ScoreFilter(df))

CleanRow(r) == [id |-> r.Id, body |-> html_to_text(r.Body), parent_id |-> r.ParentId]

GardeningDf(df) == BagOfAll(CleanRow, Filtered(df))

\* the values the UDF is called with
UdfArgs(df) == {r.Body : r \in BagToSet(Filtered(df))}

----------------------------------------------------------------------------
(* write.mode("overwrite").saveAsTable, lines 135 and 192 *)

\* mutant: mode("append")
SaveAppend(old, new) == old (+) new

\* mutant: mode("ignore"), which leaves an existing table as it is
SaveIgnore(old, new) == IF old = EmptyBag THEN new ELSE old

Overwrite(old, new) == new

SaveGardening(old, new) == Overwrite(old, new)

SaveTraining(old, new) == Overwrite(old, new)

----------------------------------------------------------------------------
(* qa_df and docs_df, lines 141-150 *)

Questions(df) == BagFilter(df, LAMBDA r : r.parent_id = NULL)

\* mutant: the join keys swapped, a.parent_id == b.id
JoinOnSwapped(a, b) == IsTrue(SqlEq(a.parent_id, Some(b.id)))

JoinOn(a, b) == IsTrue(SqlEq(Some(a.id), b.parent_id))

QaRow(p) == [answer_id |-> p[2].id, question |-> p[1].body, answer |-> p[2].body]

QaDf(df) == BagOfAll(QaRow, BagJoin(Questions(df), df, JoinOn))

\* mutant: a single line break between question and answer
SeparatorOneBreak == <<Seg("txt", "\n", 1)>>

Separator == <<Seg("txt", "\n", 2)>>

DocRow(r) == [source |-> r.answer_id, text |-> SqlConcat3(r.question, Some(Separator), r.answer)]

DocsDf(qa) == BagOfAll(DocRow, qa)

----------------------------------------------------------------------------
(* The notebook's cells *)

Init ==
  /\ \E B \in BagsUpTo(MaxPosts - 1), R \in {{}} \cup {{r} : r \in Posts} :
       raw_gardening = B (+) SetToBag(R)
  /\ \E earlier \in {EmptyBag, EarlierDump} :
       /\ gardening_dataset = GardeningDf(earlier)
       /\ gardening_training_dataset = DocsDf(QaDf(GardeningDf(earlier)))
  /\ udf_args = {}
  /\ pc = "clean"
  /\ batches = << >>
  /\ yielded = << >>
  /\ loads = 0
  /\ summarized = 0
  /\ spc = "idle"

\* lines 126-136, every call of html_to_text returning
FilterClean ==
  /\ pc = "clean"
  /\ \A x \in UdfArgs(raw_gardening) : ~MustRaise(x)
  /\ udf_args' = UdfArgs(raw_gardening)
  /\ gardening_dataset' = SaveGardening(gardening_dataset, GardeningDf(raw_gardening))
  /\ pc' = "assemble"
  /\ UNCHANGED <<raw_gardening, gardening_training_dataset>>
  /\ UNCHANGED svars

\* lines 126-135, a call of html_to_text raising: the job fails and nothing is written
FilterCleanRaise ==
  /\ pc = "clean"
  /\ \E x \in UdfArgs(raw_gardening) : MayRaise(x)
  /\ udf_args' = UdfArgs(raw_gardening)
  /\ pc' = "failed"
  /\ UNCHANGED <<raw_gardening, gardening_dataset, gardening_training_dataset>>
  /\ UNCHANGED svars

\* lines 141-155: the dataframes are lazy, the cell changes no table
Assemble ==
  /\ pc = "assemble"
  /\ pc' = "save"
  /\ UNCHANGED <<raw_gardening, gardening_dataset, gardening_training_dataset, udf_args>>
  /\ UNCHANGED svars

\* lines 172-196: docs_df is evaluated against gardening_dataset as it is now
WriteTraining ==
  /\ pc = "save"
  /\ gardening_training_dataset' =
       SaveTraining(gardening_training_dataset, DocsDf(QaDf(gardening_dataset)))
  /\ pc' = "done"
  /\ UNCHANGED <<raw_gardening, gardening_dataset, udf_args>>
  /\ UNCHANGED svars

\* the cell a stage starts at, for a run interrupted after the stage's write
StageStart(p) ==
  CASE p = "assemble" -> "clean"
    [] p = "save" -> "assemble"
    [] p = "done" -> "save"
    [] OTHER -> p

\* the run is interrupted and the interrupted stage is run again from its start
RestartStage ==
  /\ pc \in {"assemble", "save", "done"}
  /\ pc' = StageStart(pc)
  /\ UNCHANGED <<raw_gardening, gardening_dataset, gardening_training_dataset, udf_args>>
  /\ UNCHANGED svars

\* the notebook is run again on the same dump
RunAgain ==
  /\ pc \in {"done", "failed"}
  /\ pc' = "clean"
  /\ UNCHANGED <<raw_gardening, gardening_dataset, gardening_training_dataset, udf_args>>
  /\ UNCHANGED svars

Next ==
  \/ FilterClean
  \/ FilterCleanRaise
  \/ Assemble
  \/ WriteTraining
  \/ RestartStage
  \/ RunAgain

Spec == Init /\ [][Next]_vars

----------------------------------------------------------------------------
(* summarize, lines 176-188: one call of the UDF over an iterator of series. *)
(* The notebook never calls it (line 191 is a comment), so its inputs are    *)
(* drawn from texts on both sides of the 5000 character threshold.           *)

\* a text of exactly SummarizeOver characters
TextAtLimit == <<Seg("txt", "t", SummarizeOver)>>

\* a text one character over
TextOver == <<Seg("txt", "t", SummarizeOver + 1)>>

Texts == {TextAtLimit, TextOver}

\* summarizer(text)[0]['summary_text'] when the model returns
SummaryText(text) == <<Seg("txt", "summary", 1)>>

\* line 182
CallsSummarizer(text) == StrLen(text) > SummarizeOver

\* summarize_txt, lines 181-184, the summarizer returning
summarize_txt(text) == IF CallsSummarizer(text) THEN SummaryText(text) ELSE text

Series == UNION {[1..n -> Texts] : n \in 0..MaxBatchLen}

Iterators == UNION {[1..n -> Series] : n \in 0..MaxBatches}

\* the series the loop of line 186 is at
Serie == batches[Len(yielded) + 1]

LongTexts(serie) == {i \in 1..Len(serie) : CallsSummarizer(serie[i])}

\* mutant: the model loaded again for every series
LoadsPerSerie(n) == n + 1

\* the models loaded after one pass of the loop body, lines 186-188: it loads none
LoadsAfterSerie(n) == n

InitSummarize ==
  /\ raw_gardening = EmptyBag
  /\ gardening_dataset = EmptyBag
  /\ gardening_training_dataset = EmptyBag
  /\ udf_args = {}
  /\ pc = "idle"
  /\ batches \in Iterators
  /\ yielded = << >>
  /\ loads = 0
  /\ summarized = 0
  /\ spc = "start"

\* lines 179-180
LoadModel ==
  /\ spc = "start"
  /\ loads' = loads + 1
  /\ spc' = "loop"
  /\ UNCHANGED <<batches, yielded, summarized>>
  /\ UNCHANGED pvars

\* lines 186-188, every call of the summarizer returning
SummarizeSerie ==
  /\ spc = "loop"
  /\ Len(yielded) < Len(batches)
  /\ yielded' = Append(yielded, [i \in 1..Len(Serie) |-> summarize_txt(Serie[i])])
  /\ summarized' = summarized + Cardinality(LongTexts(Serie))
  /\ loads' = LoadsAfterSerie(loads)
  /\ UNCHANGED <<batches, spc>>
  /\ UNCHANGED pvars

\* lines 186-188, the summarizer raising on a text: the exception leaves the generator
SummarizeRaise ==
  /\ spc = "loop"
  /\ Len(yielded) < Len(batches)
  /\ \E i \in LongTexts(Serie) :
       summarized' = summarized + Cardinality({j \in LongTexts(Serie) : j < i})
  /\ spc' = "raised"
  /\ UNCHANGED <<batches, yielded, loads>>
  /\ UNCHANGED pvars

\* line 186, the iterator exhausted
Exhausted ==
  /\ spc = "loop"
  /\ Len(yielded) = Len(batches)
  /\ spc' = "done"
  /\ UNCHANGED <<batches, yielded, loads, summarized>>
  /\ UNCHANGED pvars

NextSummarize ==
  \/ LoadModel
  \/ SummarizeSerie
  \/ SummarizeRaise
  \/ Exhausted

SpecSummarize == InitSummarize /\ [][NextSummarize]_vars

----------------------------------------------------------------------------
(* What the claims are stated in *)

\* stage 3 has completed in this run
Cleaned == pc \in {"assemble", "save", "done"}

\* stage 4 has completed in this run: qa_df and docs_df are defined
Assembled == pc \in {"save", "done"}

\* the Post passes the filter, in two-valued terms
Keeps(r) ==
  /\ r.Score # NULL
  /\ Val(r.Score) >= 5
  /\ r.Body # NULL
  /\ StrLen(Val(r.Body)) <= 1000

\* the CleanedPost of a Post that passes
CleanedPost(r) ==
  [id |-> r.Id, body |-> Some(SelectSeq(Val(r.Body), LAMBDA g : g.k = "txt")),
   parent_id |-> r.ParentId]

\* the number of rows of the bag B that satisfy P
Count(B, P(_)) == BagCardinality([r \in {x \in DOMAIN B : P(x)} |-> B[r]])

\* no two rows of the bag B agree on Key
UniqueKey(B, Key(_)) ==
  /\ \A r \in DOMAIN B : B[r] = 1
  /\ \A r1, r2 \in DOMAIN B : Key(r1) = Key(r2) => r1 = r2

UniquePostIds == UniqueKey(raw_gardening, LAMBDA r : r.Id)

\* the table t holds one CleanedPost per Post row that passes, and nothing else
ExactlyCleaned(t) ==
  \A c \in DOMAIN t \cup {CleanedPost(r) : r \in {x \in DOMAIN raw_gardening : Keeps(x)}} :
    CopiesIn(c, t) = Count(raw_gardening, LAMBDA r : Keeps(r) /\ CleanedPost(r) = c)

\* what the tables held when the notebook started, from the earlier run
EarlierGardening == GardeningDf(EarlierDump)

EarlierTraining == DocsDf(QaDf(GardeningDf(EarlierDump)))

----------------------------------------------------------------------------
(* C1. As claimed: once Filter & Clean has run, a Post with score < 5 or a   *)
(* raw body longer than 1000 has no CleanedPost with its id, and every other *)
(* Post has a CleanedPost with its id and parent_id.                         *)
C1_AsClaimed ==
  Cleaned =>
    \A r \in DOMAIN raw_gardening :
      IF \/ (r.Score # NULL /\ Val(r.Score) < 5)
         \/ (r.Body # NULL /\ StrLen(Val(r.Body)) > 1000)
      THEN \A c \in DOMAIN gardening_dataset : c.id # r.Id
      ELSE \E c \in DOMAIN gardening_dataset : c.id = r.Id /\ c.parent_id = r.ParentId

(* C1, amended. Once Filter & Clean has run, gardening_dataset holds exactly *)
(* one CleanedPost (same id and parent_id, body the text of the raw body)    *)
(* for each Post row with a non-null score >= 5 and a non-null raw body of   *)
(* length <= 1000, and nothing else; and when the Post ids are pairwise      *)
(* distinct, a Post that does not pass has no CleanedPost with its id.       *)
C1_FilterKeeps ==
  Cleaned =>
    /\ ExactlyCleaned(gardening_dataset)
    /\ UniquePostIds =>
         \A r \in DOMAIN raw_gardening :
           ~Keeps(r) => \A c \in DOMAIN gardening_dataset : c.id # r.Id

\* a body of exactly 1000 raw characters was kept and a longer one was dropped
C1_Witness ==
  /\ pc = "assemble"
  /\ \E r \in DOMAIN raw_gardening :
       /\ Keeps(r)
       /\ StrLen(Val(r.Body)) = 1000
       /\ CopiesIn(CleanedPost(r), gardening_dataset) = 1
  /\ \E r \in DOMAIN raw_gardening :
       /\ r.Body # NULL
       /\ StrLen(Val(r.Body)) > 1000
       /\ \A c \in DOMAIN gardening_dataset : c.id # r.Id

----------------------------------------------------------------------------
----------------------------------------------------------------------------
(* C3. Once the pipeline is done, gardening_training_dataset holds exactly   *)
(* one row per QAPair of qa_df, with source = answer_id and text = question, *)
(* two line breaks, answer; and no other row.                                *)
C3_OneDocPerPair ==
  pc = "done" =>
    LET qa == QaDf(gardening_dataset)
        docs == gardening_training_dataset
        Doc(r) == [source |-> r.answer_id,
                   text |-> Some(Val(r.question) \o <<[k |-> "txt", c |-> "\n", n |-> 2]>>
                                   \o Val(r.answer))]
    IN  /\ \A r \in DOMAIN qa : r.question # NULL /\ r.answer # NULL
        /\ \A d \in DOMAIN docs \cup {Doc(r) : r \in DOMAIN qa} :
             CopiesIn(d, docs) = Count(qa, LAMBDA r : Doc(r) = d)

\* the table holds the document of a QAPair
C3_Witness ==
  /\ pc = "done"
  /\ BagCardinality(QaDf(gardening_dataset)) = 1
  /\ BagCardinality(gardening_training_dataset) = 1
  /\ \E d \in DOMAIN gardening_training_dataset : StrLen(Val(d.text)) > 2

----------------------------------------------------------------------------
(* C4. Every completed run of Filter & Clean leaves in gardening_dataset     *)
(* exactly the CleanedPosts of this run's Posts, whatever the table held     *)
(* before; so a second run on the same Posts leaves the table as the first   *)
(* run left it.                                                              *)
C4_OverwriteIdempotent ==
  [][(pc = "clean" /\ pc' = "assemble") =>
       /\ ExactlyCleaned(gardening_dataset')
       /\ ExactlyCleaned(gardening_dataset) => gardening_dataset' = gardening_dataset]_vars

\* stage 3 is about to run a second time on Posts it has already cleaned, and the
\* table it wrote replaced the rows of the earlier run
C4_Witness ==
  /\ pc = "clean"
  /\ gardening_training_dataset = EarlierTraining
  /\ BagCardinality(EarlierTraining) > 0
  /\ BagCardinality(gardening_dataset) = 2
  /\ gardening_dataset = GardeningDf(raw_gardening)
  /\ \A c \in DOMAIN gardening_dataset : ~BagIn(c, EarlierGardening)

----------------------------------------------------------------------------
(* C5. However often a run is interrupted after a write and the interrupted  *)
(* stage restarted from its start, a finished run leaves both tables as an   *)
(* uninterrupted run on the same Posts leaves them; and at every moment each *)
(* table is, as a whole, what the earlier run left or what this run writes,  *)
(* never a mix of the two.                                                   *)
C5_RestartSafe ==
  LET new_gardening == GardeningDf(raw_gardening)
      new_training == DocsDf(QaDf(new_gardening))
  IN  /\ pc = "done" =>
           /\ gardening_dataset = new_gardening
           /\ gardening_training_dataset = new_training
      /\ gardening_dataset \in {EmptyBag, EarlierGardening, new_gardening}
      /\ gardening_training_dataset \in {EmptyBag, EarlierTraining, new_training}

\* stage 5 has written over the earlier run's table and is back at its start
C5_Witness ==
  /\ pc = "save"
  /\ BagCardinality(gardening_training_dataset) > 0
  /\ gardening_training_dataset # EarlierTraining
  /\ gardening_training_dataset = DocsDf(QaDf(GardeningDf(raw_gardening)))

----------------------------------------------------------------------------
(* C6. As claimed: when html_to_text fails for one Post (of Posts with       *)
(* pairwise distinct ids), every other Post that passes the filter is in     *)
(* gardening_dataset with its stripped body.                                 *)
C6_AsClaimed ==
  (pc = "failed" /\ UniquePostIds) =>
    \A r \in DOMAIN raw_gardening :
      (Keeps(r) /\ ~Malformed(Val(r.Body))) => BagIn(CleanedPost(r), gardening_dataset)

----------------------------------------------------------------------------
(* C8. As claimed: after Filter & Clean, for any Posts, no two rows of       *)
(* gardening_dataset have the same id.                                       *)
C8_AsClaimed == Cleaned => UniqueKey(gardening_dataset, LAMBDA c : c.id)

(* C8, amended. After Filter & Clean on Posts whose ids are pairwise         *)
(* distinct, no two rows of gardening_dataset have the same id.              *)
C8_UniqueIds == (Cleaned /\ UniquePostIds) => UniqueKey(gardening_dataset, LAMBDA c : c.id)

\* two Posts with distinct ids were kept, over a table that held rows of an earlier run
C8_Witness ==
  /\ pc = "assemble"
  /\ UniquePostIds
  /\ BagCardinality(gardening_dataset) = 2
  /\ BagCardinality(gardening_training_dataset) > 0

----------------------------------------------------------------------------
(* C10. Every value handed to html_to_text is a non-null string of at most   *)
(* 1000 characters; a Post whose score or body is null is in no run's        *)
(* gardening_dataset; and every question and answer of qa_df is the text of  *)
(* a value that was handed to html_to_text.                                  *)
C10_NullsFiltered ==
  /\ \A x \in udf_args : x # NULL /\ StrLen(Val(x)) <= 1000
  /\ Cleaned =>
       \A c \in DOMAIN gardening_dataset :
         /\ c.body # NULL
         /\ \E r \in DOMAIN raw_gardening :
              /\ r.Score # NULL
              /\ r.Body # NULL
              /\ r.Id = c.id
              /\ r.ParentId = c.parent_id
              /\ c.body = html_to_text(r.Body)
  /\ Assembled =>
       \A row \in DOMAIN QaDf(gardening_dataset) :
         /\ row.question \in {html_to_text(x) : x \in udf_args}
         /\ row.answer \in {html_to_text(x) : x \in udf_args}

\* a Post without a body was dropped while another Post went through html_to_text
C10_Witness ==
  /\ pc = "assemble"
  /\ \E r \in DOMAIN raw_gardening : r.Body = NULL /\ r.Score # NULL
  /\ Cardinality(udf_args) > 0
  /\ BagCardinality(gardening_dataset) = 1

----------------------------------------------------------------------------
(* C7. As claimed: when the summarizer fails on a document, summarize still  *)
(* yields every series of the batch, with that document's original text and  *)
(* every other document unchanged (length <= 5000) or summarized.            *)
C7_AsClaimed ==
  spc \in {"done", "raised"} =>
    /\ Len(yielded) = Len(batches)
    /\ \A b \in 1..Len(batches) :
         /\ Len(yielded[b]) = Len(batches[b])
         /\ \A i \in 1..Len(batches[b]) :
              IF StrLen(batches[b][i]) <= 5000
              THEN yielded[b][i] = batches[b][i]
              ELSE yielded[b][i] \in {batches[b][i], SummaryText(batches[b][i])}

----------------------------------------------------------------------------
(* C9. In one execution of summarize the model is loaded exactly once,       *)
(* before the first document is handled: not at all before the load step,    *)
(* and once from then on, however many series and documents follow.          *)
C9_LoadedOnce ==
  /\ spc = "start" => (loads = 0 /\ summarized = 0 /\ Len(yielded) = 0)
  /\ spc \in {"loop", "done", "raised"} => loads = 1

\* two series were yielded and two documents summarized with the one model
C9_Witness ==
  /\ spc = "done"
  /\ Len(yielded) = 2
  /\ summarized >= 2
  /\ loads = 1

====
